---- MODULE Spec2Model ----
(***************************************************************************)
(* Model of src/model.rs: the Mdl term language and the TensorAnalysis     *)
(* e-class analysis (make / merge / modify) that drives the TASO graph.    *)
(*                                                                         *)
(* Strings are sequences of one-character strings, so that split("@"),     *)
(* split("_") and parse::<i32>() are computed the way the code computes    *)
(* them.  Tensor handles are addresses (positive naturals) into one heap;  *)
(* the null pointer is 0.                                                  *)
(***************************************************************************)
EXTENDS Integers, Sequences, FiniteSets, TLC

(***************************************************************************)
(* Bounds of the model.                                                    *)
(***************************************************************************)
\* e-classes the e-graph may hold; add() is not taken beyond it
MaxClasses == 5

(***************************************************************************)
(* Constants of the program.                                               *)
(***************************************************************************)
\* std::ptr::null_mut()
Null == 0
\* i32::MAX, the largest value parse::<i32>() accepts
MaxI32 == 2147483647

\* DataKind
DataKind == {"Name", "Scalar", "Tnsr", "TnsrTuple"}

\* The variants of Mdl
MdlKinds ==
    {"input", "weight", "ewadd", "ewmul", "smul", "transpose", "matmul",
     "conv2d", "enlarge", "relu", "tanh", "sigmoid", "poolavg", "poolmax",
     "concat", "split_0", "split_1", "split", "Cpool", "Iconv", "Imatmul",
     "Iewmul", "merge", "Num", "Var"}

\* An e-node: its variant, its operand class ids, and the payload of the
\* two leaf variants (Num(i32), Var(Symbol)).
Node(kind, ids) == [kind |-> kind, ids |-> ids, num |-> 0, sym |-> <<>>]
NumNode(n) == [kind |-> "Num", ids |-> <<>>, num |-> n, sym |-> <<>>]
VarNode(s) == [kind |-> "Var", ids |-> <<>>, num |-> 0, sym |-> s]

\* struct ValTnsr
ValTnsr(dtype, val, name, meta, meta_2) ==
    [dtype |-> dtype, val |-> val, name |-> name, meta |-> meta, meta_2 |-> meta_2]

\* The record every tensor-producing arm of make returns
TnsrData(res) == ValTnsr("Tnsr", 0, <<>>, res, Null)

(***************************************************************************)
(* str::split and str::parse::<i32>                                        *)
(***************************************************************************)
RECURSIVE SplitStr(_, _)
\* s.split(sep).collect(): the pieces between the separators, empty pieces kept
SplitStr(s, sep) ==
    IF \A i \in 1..Len(s) : s[i] # sep
    THEN <<s>>
    ELSE LET i == CHOOSE k \in 1..Len(s) :
                      s[k] = sep /\ \A j \in 1..(k - 1) : s[j] # sep
         IN  <<SubSeq(s, 1, i - 1)>> \o SplitStr(SubSeq(s, i + 1, Len(s)), sep)

Digits == {"0", "1", "2", "3", "4", "5", "6", "7", "8", "9"}

DigitVal(c) ==
    CASE c = "0" -> 0 [] c = "1" -> 1 [] c = "2" -> 2 [] c = "3" -> 3
      [] c = "4" -> 4 [] c = "5" -> 5 [] c = "6" -> 6 [] c = "7" -> 7
      [] c = "8" -> 8 [] c = "9" -> 9

RECURSIVE ParseDigits(_, _)
\* The digits of ds appended to the magnitude acc; -1 when the value leaves i32
ParseDigits(ds, acc) ==
    IF ds = <<>> THEN acc
    ELSE IF acc > (MaxI32 - DigitVal(Head(ds))) \div 10 THEN -1
    ELSE ParseDigits(Tail(ds), acc * 10 + DigitVal(Head(ds)))

\* tok.parse::<i32>(): an optional sign, then one or more digits, in range
ParseI32(tok) ==
    LET signed == Len(tok) > 0 /\ tok[1] \in {"+", "-"}
        ds     == IF signed THEN Tail(tok) ELSE tok
        mag    == ParseDigits(ds, 0)
    IN  IF ds = <<>> \/ (\E i \in 1..Len(ds) : ds[i] \notin Digits) \/ mag < 0
        THEN [ok |-> FALSE, val |-> 0]
        ELSE [ok |-> TRUE,
              val |-> IF signed /\ tok[1] = "-" THEN 0 - mag ELSE mag]

\* The closure dim_from_name of make, applied to a name string:
\* ok is FALSE when assert!(name_vec.len() == 2) or an unwrap() panics
DimFromName(name) ==
    LET name_vec == SplitStr(name, "@")
    IN  IF Len(name_vec) # 2 THEN [ok |-> FALSE, dims |-> <<>>]
        ELSE LET toks == SplitStr(name_vec[2], "_")
             IN  IF \E i \in 1..Len(toks) : ~ParseI32(toks[i]).ok
                 THEN [ok |-> FALSE, dims |-> <<>>]
                 ELSE [ok |-> TRUE,
                       dims |-> [i \in 1..Len(toks) |-> ParseI32(toks[i]).val]]

RECURSIVE Product(_)
\* dims.iter().product(); the names of the model keep it far inside i32
Product(dims) == IF dims = <<>> THEN 1 ELSE Head(dims) * Product(Tail(dims))

\* i32 -> ActiMode / PaddingMode .try_into(): the C enums are unsigned
TryIntoEnum(val) == val >= 0

(***************************************************************************)
(* The TASO graph behind TensorAnalysis.graph.  Its code is not part of    *)
(* model.rs; what the model keeps of it is what model.rs can observe:      *)
(*   calls  the foreign calls issued, in order, with their arguments;      *)
(*   ops    the ops of the graph, one per distinct constructor key;        *)
(*   heap   the tensor descriptors (op, output index) handles point to;    *)
(*   edges  the edges registered with add_edge.                            *)
(***************************************************************************)
EmptyGraph == [calls |-> <<>>, ops |-> <<>>, heap |-> <<>>, edges |-> {}]

\* Op_INVALID_OP
InvalidOp == 0

\* *handle: the tensor descriptor a handle points to
Deref(g, h) == IF h = Null THEN [op |-> InvalidOp, idx |-> 0] ELSE g.heap[h]

\* One foreign call as recorded in g.calls
Call(fn, ins, params, data) == [fn |-> fn, ins |-> ins, params |-> params, data |-> data]

\* The key of an op: its type, the tensors it reads, its parameters
OpKey(g, fn, ins, params, data) ==
    [type |-> fn, ins |-> [i \in 1..Len(ins) |-> Deref(g, ins[i])],
     params |-> params, data |-> data]

\* get_or_create_*: the op with this key, created when the graph has none
GetOrCreate(ops, key) ==
    IF \E i \in 1..Len(ops) : ops[i] = key
    THEN [ops |-> ops, op |-> CHOOSE i \in 1..Len(ops) : ops[i] = key]
    ELSE [ops |-> Append(ops, key), op |-> Len(ops) + 1]

\* A tensor constructor of the graph (g.matmul, g.element, g.relu, ...):
\* logs the call, finds or creates the op and returns a handle to a new
\* descriptor of the op's output 0.
BackendOp(g, fn, ins, params, data) ==
    LET r == GetOrCreate(g.ops, OpKey(g, fn, ins, params, data))
    IN  [res   |-> Len(g.heap) + 1,
         graph |-> [g EXCEPT !.calls = Append(@, Call(fn, ins, params, data)),
                             !.ops   = r.ops,
                             !.heap  = Append(@, [op |-> r.op, idx |-> 0])]]

(***************************************************************************)
(* TensorAnalysis::make.  eg is the class store (egraph[id]), g the graph  *)
(* borrowed from the analysis.  Every arm returns an outcome: status "ok"  *)
(* with the record built, or "abort" when an assert!, an unwrap() or       *)
(* todo!() panics.                                                         *)
(***************************************************************************)
\* The closure x of make: egraph[*i].data
X(eg, i) == eg[i].data

\* Stands for "no record" in the outcome of a call that panicked
NoData == ValTnsr("Name", 0, <<>>, Null, Null)

Ok(data, g) == [status |-> "ok", data |-> data, graph |-> g, printed |-> FALSE]
Abort(g) == [status |-> "abort", data |-> NoData, graph |-> g, printed |-> FALSE]

\* assert!(x(id).dtype == kind) for each position of ids
TagsOk(eg, ids, kinds) == \A i \in 1..Len(ids) : X(eg, ids[i]).dtype = kinds[i]

\* Matmul without assert!(x(b).dtype == DataKind::Tnsr)
MakeMatmul_RhsUnchecked(eg, g, ids) ==
    IF ~TagsOk(eg, SubSeq(ids, 1, 2), <<"Scalar", "Tnsr">>) THEN Abort(g)
    ELSE IF ~TryIntoEnum(X(eg, ids[1]).val) THEN Abort(g)
    ELSE LET r == BackendOp(g, "matmul", <<X(eg, ids[2]).meta, X(eg, ids[3]).meta>>,
                            <<X(eg, ids[1]).val>>, <<>>)
         IN  Ok(TnsrData(r.res), r.graph)

\* Mdl::Matmul([act, a, b])
MakeMatmul(eg, g, ids) ==
    IF ~TagsOk(eg, ids, <<"Scalar", "Tnsr", "Tnsr">>) THEN Abort(g)
    ELSE IF ~TryIntoEnum(X(eg, ids[1]).val) THEN Abort(g)
    ELSE LET r == BackendOp(g, "matmul", <<X(eg, ids[2]).meta, X(eg, ids[3]).meta>>,
                            <<X(eg, ids[1]).val>>, <<>>)
         IN  Ok(TnsrData(r.res), r.graph)

\* Mdl::Conv2d([stride_h, stride_w, pad, act, inpt, wght])
MakeConv2d(eg, g, ids) ==
    IF ~TagsOk(eg, ids, <<"Scalar", "Scalar", "Scalar", "Scalar", "Tnsr", "Tnsr">>)
    THEN Abort(g)
    ELSE IF ~TryIntoEnum(X(eg, ids[3]).val) \/ ~TryIntoEnum(X(eg, ids[4]).val)
    THEN Abort(g)
    ELSE LET r == BackendOp(g, "conv2d1", <<X(eg, ids[5]).meta, X(eg, ids[6]).meta>>,
                            <<X(eg, ids[1]).val, X(eg, ids[2]).val,
                              X(eg, ids[3]).val, X(eg, ids[4]).val>>, <<>>)
         IN  Ok(TnsrData(r.res), r.graph)

\* Mdl::Ewadd([a, b]), Mdl::Ewmul([a, b]): g.element(opcode, t_a, t_b)
MakeElement(eg, g, ids, opcode) ==
    IF ~TagsOk(eg, ids, <<"Tnsr", "Tnsr">>) THEN Abort(g)
    ELSE LET r == BackendOp(g, opcode, <<X(eg, ids[1]).meta, X(eg, ids[2]).meta>>,
                            <<>>, <<>>)
         IN  Ok(TnsrData(r.res), r.graph)

\* Mdl::Relu(a), Mdl::Tanh(a), Mdl::Sigmoid(a): g.relu(t_a, true), ...
MakeActivation(eg, g, ids, fn) ==
    IF ~TagsOk(eg, ids, <<"Tnsr">>) THEN Abort(g)
    ELSE LET r == BackendOp(g, fn, <<X(eg, ids[1]).meta>>, <<1>>, <<>>)
         IN  Ok(TnsrData(r.res), r.graph)

\* Mdl::Input([name])
MakeInput(eg, g, ids) ==
    IF ~TagsOk(eg, ids, <<"Name">>) THEN Abort(g)
    ELSE LET d == DimFromName(X(eg, ids[1]).name)
         IN  IF ~d.ok THEN Abort(g)
             ELSE LET r == BackendOp(g, "new_input", <<>>, <<Len(d.dims)>> \o d.dims, <<>>)
                  IN  Ok(TnsrData(r.res), r.graph)

\* let num_entries = dims.iter().product(); (0..num_entries): its length
NumEntries(name) ==
    LET d == DimFromName(name)
    IN  IF ~d.ok \/ Product(d.dims) < 0 THEN 0 ELSE Product(d.dims)

\* Mdl::Weight([name]); rand is what rand::random() yields for the buffer
MakeWeight(eg, g, ids, rand) ==
    IF ~TagsOk(eg, ids, <<"Name">>) THEN Abort(g)
    ELSE LET d == DimFromName(X(eg, ids[1]).name)
         IN  IF ~d.ok THEN Abort(g)
             ELSE LET weight_data == SubSeq(rand, 1, NumEntries(X(eg, ids[1]).name))
                      r == BackendOp(g, "new_weight", <<>>, <<Len(d.dims)>> \o d.dims,
                                     weight_data)
                  IN  Ok(TnsrData(r.res), r.graph)

\* Mdl::Concat([axis, ndim, a, b])
MakeConcat(eg, g, ids) ==
    IF ~TagsOk(eg, ids, <<"Scalar", "Scalar", "Tnsr", "Tnsr">>) THEN Abort(g)
    ELSE LET r == BackendOp(g, "concat", <<X(eg, ids[3]).meta, X(eg, ids[4]).meta>>,
                            <<X(eg, ids[1]).val, 2>>, <<>>)
         IN  Ok(TnsrData(r.res), r.graph)

\* Mdl::Merge([weight, count])
MakeMerge(eg, g, ids) ==
    IF ~TagsOk(eg, ids, <<"Tnsr", "Scalar">>) THEN Abort(g)
    ELSE LET r == BackendOp(g, "merge_gconv", <<X(eg, ids[1]).meta>>,
                            <<X(eg, ids[2]).val>>, <<>>)
         IN  Ok(TnsrData(r.res), r.graph)

\* Mdl::Poolmax([inpt, kernel_h, kernel_w, stride_h, stride_w, pad, act])
MakePoolmax(eg, g, ids) ==
    IF ~TagsOk(eg, ids, <<"Tnsr", "Scalar", "Scalar", "Scalar", "Scalar", "Scalar", "Scalar">>)
    THEN Abort(g)
    ELSE IF ~TryIntoEnum(X(eg, ids[6]).val) \/ ~TryIntoEnum(X(eg, ids[7]).val)
    THEN Abort(g)
    ELSE LET r == BackendOp(g, "pool2d_max", <<X(eg, ids[1]).meta>>,
                            [i \in 1..6 |-> X(eg, ids[i + 1]).val], <<>>)
         IN  Ok(TnsrData(r.res), r.graph)

\* g.add_edge(src_op, dst_op, src_idx, dst_idx)
AddEdge(g, src, dst, srcIdx, dstIdx) ==
    [g EXCEPT !.calls = Append(@, Call("add_edge", <<>>, <<src, dst, srcIdx, dstIdx>>, <<>>)),
              !.edges = @ \cup {<<src, dst, srcIdx, dstIdx>>}]

\* Split registering the edge before assert!(op != Op_INVALID_OP)
MakeSplit_EdgeFirst(eg, g, ids, valid) ==
    IF ~TagsOk(eg, ids, <<"Scalar", "Tnsr">>) THEN Abort(g)
    ELSE LET t_inpt   == X(eg, ids[2]).meta
             axis_val == X(eg, ids[1]).val
             called   == [g EXCEPT !.calls =
                             Append(@, Call("get_or_create_split1", <<t_inpt>>,
                                            <<axis_val, 2>>, <<>>))]
             r        == GetOrCreate(g.ops, OpKey(g, "split", <<t_inpt>>, <<axis_val, 2>>, <<>>))
             op       == IF valid THEN r.op ELSE InvalidOp
             g1       == AddEdge([called EXCEPT !.ops = IF valid THEN r.ops ELSE g.ops],
                                 Deref(g, t_inpt).op, op, Deref(g, t_inpt).idx, 0)
             g2       == [g1 EXCEPT !.heap = @ \o <<[op |-> op, idx |-> 0],
                                                    [op |-> op, idx |-> 1]>>]
         IN  IF op = InvalidOp THEN Abort(g1)
             ELSE Ok(ValTnsr("TnsrTuple", 0, <<>>, Len(g.heap) + 1, Len(g.heap) + 2), g2)

\* Mdl::Split([axis, inpt]); valid tells whether get_or_create_split1
\* returned an op other than Op_INVALID_OP
MakeSplit(eg, g, ids, valid) ==
    IF ~TagsOk(eg, ids, <<"Scalar", "Tnsr">>) THEN Abort(g)
    ELSE LET t_inpt   == X(eg, ids[2]).meta
             axis_val == X(eg, ids[1]).val
             called   == [g EXCEPT !.calls =
                             Append(@, Call("get_or_create_split1", <<t_inpt>>,
                                            <<axis_val, 2>>, <<>>))]
             r        == GetOrCreate(g.ops, OpKey(g, "split", <<t_inpt>>, <<axis_val, 2>>, <<>>))
             op       == IF valid THEN r.op ELSE InvalidOp
         IN  IF op = InvalidOp THEN Abort(called)
             ELSE LET g1 == AddEdge([called EXCEPT !.ops = r.ops],
                                    Deref(g, t_inpt).op, op, Deref(g, t_inpt).idx, 0)
                      g2 == [g1 EXCEPT !.heap = @ \o <<[op |-> op, idx |-> 0],
                                                       [op |-> op, idx |-> 1]>>]
                  IN  Ok(ValTnsr("TnsrTuple", 0, <<>>, Len(g.heap) + 1, Len(g.heap) + 2), g2)

\* Split0 cloning the operand's record and only retagging it
MakeSplit0_KeepsSecond(eg, g, ids) ==
    IF ~TagsOk(eg, ids, <<"TnsrTuple">>) THEN Abort(g)
    ELSE Ok([X(eg, ids[1]) EXCEPT !.dtype = "Tnsr"], g)

\* Mdl::Split0(inpt)
MakeSplit0(eg, g, ids) ==
    IF ~TagsOk(eg, ids, <<"TnsrTuple">>) THEN Abort(g)
    ELSE Ok(TnsrData(X(eg, ids[1]).meta), g)

\* Split1 reading .meta, as Split0 does
MakeSplit1_ReadsFirst(eg, g, ids) ==
    IF ~TagsOk(eg, ids, <<"TnsrTuple">>) THEN Abort(g)
    ELSE Ok(TnsrData(X(eg, ids[1]).meta), g)

\* Mdl::Split1(inpt)
MakeSplit1(eg, g, ids) ==
    IF ~TagsOk(eg, ids, <<"TnsrTuple">>) THEN Abort(g)
    ELSE Ok(TnsrData(X(eg, ids[1]).meta_2), g)

\* Mdl::Enlarge([a, b])
MakeEnlarge(eg, g, ids) ==
    IF ~TagsOk(eg, ids, <<"Tnsr", "Tnsr">>) THEN Abort(g)
    ELSE LET r == BackendOp(g, "enlarge", <<X(eg, ids[1]).meta, X(eg, ids[2]).meta>>,
                            <<>>, <<>>)
         IN  Ok(TnsrData(r.res), r.graph)

\* Mdl::Num(_n)
MakeNum(g, n) == Ok(ValTnsr("Scalar", n, <<>>, Null, Null), g)

\* Var checking the name format when the symbol is created
MakeVar_Validating(g, s) ==
    IF DimFromName(s).ok THEN Ok(ValTnsr("Name", 0, s, Null, Null), g) ELSE Abort(g)

\* Mdl::Var(_s)
MakeVar(g, s) == Ok(ValTnsr("Name", 0, s, Null, Null), g)

\* other => { println!("{:?}", other); todo!() }
MakeOther(g) == [status |-> "abort", data |-> NoData, graph |-> g, printed |-> TRUE]

\* The match of make.  rand and valid are the two values the call draws
\* from outside: the random weight buffer and the split op's validity.
Make(eg, g, enode, rand, valid) ==
    CASE enode.kind = "matmul"  -> MakeMatmul(eg, g, enode.ids)
      [] enode.kind = "conv2d"  -> MakeConv2d(eg, g, enode.ids)
      [] enode.kind = "ewadd"   -> MakeElement(eg, g, enode.ids, "OP_EW_ADD")
      [] enode.kind = "ewmul"   -> MakeElement(eg, g, enode.ids, "OP_EW_MUL")
      [] enode.kind = "relu"    -> MakeActivation(eg, g, enode.ids, "relu")
      [] enode.kind = "tanh"    -> MakeActivation(eg, g, enode.ids, "tanh")
      [] enode.kind = "sigmoid" -> MakeActivation(eg, g, enode.ids, "sigmoid")
      [] enode.kind = "input"   -> MakeInput(eg, g, enode.ids)
      [] enode.kind = "weight"  -> MakeWeight(eg, g, enode.ids, rand)
      [] enode.kind = "concat"  -> MakeConcat(eg, g, enode.ids)
      [] enode.kind = "merge"   -> MakeMerge(eg, g, enode.ids)
      [] enode.kind = "poolmax" -> MakePoolmax(eg, g, enode.ids)
      [] enode.kind = "split"   -> MakeSplit(eg, g, enode.ids, valid)
      [] enode.kind = "split_0" -> MakeSplit0(eg, g, enode.ids)
      [] enode.kind = "split_1" -> MakeSplit1(eg, g, enode.ids)
      [] enode.kind = "enlarge" -> MakeEnlarge(eg, g, enode.ids)
      [] enode.kind = "Num"     -> MakeNum(g, enode.num)
      [] enode.kind = "Var"     -> MakeVar(g, enode.sym)
      [] OTHER                  -> MakeOther(g)

\* merge taking the incoming record and reporting the change
MergeData_TakesFrom(to, from) == [to |-> from, ret |-> to # from]

\* TensorAnalysis::merge(&self, to, from): the record left in `to` and the
\* value returned
MergeData(to, from) == [to |-> to, ret |-> FALSE]

\* TensorAnalysis::modify(egraph, id): the e-graph and graph it leaves
Modify(eg, g, id) == [classes |-> eg, graph |-> g]

(***************************************************************************)
(* Inputs of the model.                                                    *)
(***************************************************************************)
\* The name of the seed input: a well-formed name of rank 2
SeedName == <<"x", "@", "1", "_", "2">>

\* The symbols Var nodes are built from
Names ==
    {SeedName,
     <<"x">>,
     <<"a", "@", "1", "@", "2">>,
     <<"x", "@">>,
     <<"x", "@", "a">>,
     <<"x", "@", "0">>,
     <<"x", "@", "-", "1">>}

\* The literals Num nodes are built from
Nums == {-1, 1}

\* The values rand::random() fills a weight buffer with
RandVals == {0, 1}

VARIABLES
    classes,   \* the e-graph's classes: [nodes, data] per class id
    graph,     \* TensorAnalysis.graph
    first,     \* history: the record make first returned for each class
    last       \* the last call of the analysis and its outcome

vars == <<classes, graph, first, last>>

ClassIds == 1..Len(classes)

\* All operand tuples of length n over the classes of the e-graph
Operands(n) == [1..n -> ClassIds]

\* The classes whose record carries the tag kind
Tagged(kind) == {c \in ClassIds : classes[c].data.dtype = kind}

\* Operand tuples for the wide variants, whose grammar asks for the tags
\* kinds: the tuples made of one class up to a position and another after
\* it, and the well-tagged tuples with one position replaced by any class
OperandsBy(kinds) ==
    LET n == Len(kinds)
    IN  {[i \in 1..n |-> IF i <= j THEN a ELSE b] :
            a \in ClassIds, b \in ClassIds, j \in 1..(n - 1)}
        \cup
        {[i \in 1..n |-> IF i = j THEN c ELSE IF kinds[i] = "Scalar" THEN a ELSE b] :
            a \in Tagged("Scalar"), b \in Tagged("Tnsr"), c \in ClassIds, j \in 1..n}

\* The process has not panicked and the e-graph has room for a class
CanAdd == last.status = "ok" /\ Len(classes) < MaxClasses

LastMake(enode, o) ==
    [op |-> "make", node |-> enode, status |-> o.status, data |-> o.data,
     printed |-> o.printed, ret |-> FALSE]

\* The e-graph stores the record make returned in a new class; a panic of
\* make ends the process
Install(enode, o) ==
    /\ graph' = o.graph
    /\ classes' = IF o.status = "ok"
                  THEN Append(classes, [nodes |-> enode, data |-> o.data])
                  ELSE classes
    /\ first' = IF o.status = "ok" THEN Append(first, o.data) ELSE first
    /\ last' = LastMake(enode, o)

\* EGraph::add of an e-node the e-graph computes a record for.  The same
\* e-node may be added again: make is then called for it independently.
Add(enode, rand, valid) == Install(enode, Make(classes, graph, enode, rand, valid))

AddInput == CanAdd /\ \E ids \in Operands(1) : Add(Node("input", ids), <<>>, TRUE)
AddWeight == CanAdd /\ \E ids \in Operands(1) :
                    \E rand \in [1..NumEntries(X(classes, ids[1]).name) -> RandVals] :
                        Add(Node("weight", ids), rand, TRUE)
AddEwadd == CanAdd /\ \E ids \in Operands(2) : Add(Node("ewadd", ids), <<>>, TRUE)
AddEwmul == CanAdd /\ \E ids \in Operands(2) : Add(Node("ewmul", ids), <<>>, TRUE)
AddSmul == CanAdd /\ \E ids \in Operands(2) : Add(Node("smul", ids), <<>>, TRUE)
AddTranspose == CanAdd /\ \E ids \in Operands(1) : Add(Node("transpose", ids), <<>>, TRUE)
AddMatmul == CanAdd /\ \E ids \in Operands(3) : Add(Node("matmul", ids), <<>>, TRUE)
AddConv2d == CanAdd /\ \E ids \in OperandsBy(<<"Scalar", "Scalar", "Scalar", "Scalar", "Tnsr", "Tnsr">>) :
                    Add(Node("conv2d", ids), <<>>, TRUE)
AddEnlarge == CanAdd /\ \E ids \in Operands(2) : Add(Node("enlarge", ids), <<>>, TRUE)
AddRelu == CanAdd /\ \E ids \in Operands(1) : Add(Node("relu", ids), <<>>, TRUE)
AddTanh == CanAdd /\ \E ids \in Operands(1) : Add(Node("tanh", ids), <<>>, TRUE)
AddSigmoid == CanAdd /\ \E ids \in Operands(1) : Add(Node("sigmoid", ids), <<>>, TRUE)
AddPoolavg == CanAdd /\ \E ids \in OperandsBy(<<"Tnsr", "Scalar", "Scalar", "Scalar", "Scalar", "Scalar", "Scalar">>) :
                    Add(Node("poolavg", ids), <<>>, TRUE)
AddPoolmax == CanAdd /\ \E ids \in OperandsBy(<<"Tnsr", "Scalar", "Scalar", "Scalar", "Scalar", "Scalar", "Scalar">>) :
                    Add(Node("poolmax", ids), <<>>, TRUE)
AddConcat == CanAdd /\ \E ids \in OperandsBy(<<"Scalar", "Scalar", "Tnsr", "Tnsr">>) :
                    Add(Node("concat", ids), <<>>, TRUE)
AddSplit0 == CanAdd /\ \E ids \in Operands(1) : Add(Node("split_0", ids), <<>>, TRUE)
AddSplit1 == CanAdd /\ \E ids \in Operands(1) : Add(Node("split_1", ids), <<>>, TRUE)
AddSplit == CanAdd /\ \E ids \in Operands(2) : \E valid \in BOOLEAN :
                    Add(Node("split", ids), <<>>, valid)
AddCpool == CanAdd /\ \E ids \in Operands(2) : Add(Node("Cpool", ids), <<>>, TRUE)
AddIconv == CanAdd /\ \E ids \in Operands(2) : Add(Node("Iconv", ids), <<>>, TRUE)
AddImatmul == CanAdd /\ Add(Node("Imatmul", <<>>), <<>>, TRUE)
AddIewmul == CanAdd /\ Add(Node("Iewmul", <<>>), <<>>, TRUE)
AddMerge == CanAdd /\ \E ids \in Operands(2) : Add(Node("merge", ids), <<>>, TRUE)
AddNum == CanAdd /\ \E n \in Nums : Add(NumNode(n), <<>>, TRUE)
AddVar == CanAdd /\ \E s \in Names : Add(VarNode(s), <<>>, TRUE)

\* What `last` holds after a call of merge or modify
LastHook(op, ids, ret) ==
    [op |-> op, node |-> Node("-", ids), status |-> "ok", data |-> NoData,
     printed |-> FALSE, ret |-> ret]

\* EGraph::union of two classes: the analysis reconciles their records and
\* the record it leaves in `to` stays with the class
Union ==
    /\ last.status = "ok"
    /\ \E a \in ClassIds : \E b \in ClassIds \ {a} :
          /\ classes' = [classes EXCEPT ![a].data = MergeData(classes[a].data, classes[b].data).to]
          /\ last' = LastHook("merge", <<a, b>>,
                               MergeData(classes[a].data, classes[b].data).ret)
    /\ UNCHANGED <<graph, first>>

\* EGraph::rebuild: the analysis is told that a class changed
Rebuild ==
    /\ last.status = "ok"
    /\ \E id \in ClassIds :
          /\ classes' = Modify(classes, graph, id).classes
          /\ graph' = Modify(classes, graph, id).graph
          /\ last' = LastHook("modify", <<id>>, FALSE)
    /\ UNCHANGED first

\* The e-graph and graph after one more e-node of the start term
SeedStep(prev, enode, o) ==
    [classes |-> Append(prev.classes, [nodes |-> enode, data |-> o.data]),
     graph   |-> o.graph]

SeedAdd(prev, enode) ==
    SeedStep(prev, enode, Make(prev.classes, prev.graph, enode, <<>>, TRUE))

RECURSIVE Seeded(_)
\* The e-graph and graph after adding the e-nodes of a start term in order
Seeded(seed) ==
    IF seed = <<>> THEN [classes |-> <<>>, graph |-> EmptyGraph]
    ELSE SeedAdd(Seeded(SubSeq(seed, 1, Len(seed) - 1)), seed[Len(seed)])

\* The term the optimizer starts from: (input x@1_2) and a literal
SeedTerm == <<VarNode(SeedName), NumNode(1), Node("input", <<1>>)>>

InitFrom(eg) ==
    /\ classes = eg.classes
    /\ graph = eg.graph
    /\ first = [i \in 1..Len(eg.classes) |-> eg.classes[i].data]
    /\ last = [op |-> "init", node |-> Node("init", <<>>), status |-> "ok",
               data |-> NoData, printed |-> FALSE, ret |-> FALSE]

Init == InitFrom(Seeded(SeedTerm))

\* The insertion path of the e-graph: every variant of Mdl may be added
Next ==
    \/ AddInput \/ AddWeight \/ AddEwadd \/ AddEwmul \/ AddSmul \/ AddTranspose
    \/ AddMatmul \/ AddConv2d \/ AddEnlarge \/ AddRelu \/ AddTanh \/ AddSigmoid
    \/ AddPoolavg \/ AddPoolmax \/ AddConcat \/ AddSplit0 \/ AddSplit1 \/ AddSplit
    \/ AddCpool \/ AddIconv \/ AddImatmul \/ AddIewmul \/ AddMerge
    \/ AddNum \/ AddVar

Spec == Init /\ [][Next]_vars

\* Insertions interleaved with the unions and rebuilds of the e-graph, which
\* call merge and modify
NextHooks ==
    \/ AddNum \/ AddInput \/ AddWeight \/ AddSplit \/ AddSplit0
    \/ Union \/ Rebuild

SpecHooks == Init /\ [][NextHooks]_vars

(***************************************************************************)
(* Properties.  In Spec every step that changes the state is an add, and   *)
(* last' names the e-node added; the state before the step is the one the  *)
(* call of make read.                                                      *)
(***************************************************************************)
\* The tags the grammar demands of the operands of each translated variant
Demanded(kind) ==
    CASE kind = "matmul"  -> <<"Scalar", "Tnsr", "Tnsr">>
      [] kind = "conv2d"  -> <<"Scalar", "Scalar", "Scalar", "Scalar", "Tnsr", "Tnsr">>
      [] kind \in {"ewadd", "ewmul", "enlarge"} -> <<"Tnsr", "Tnsr">>
      [] kind \in {"relu", "tanh", "sigmoid"} -> <<"Tnsr">>
      [] kind \in {"input", "weight"} -> <<"Name">>
      [] kind = "concat"  -> <<"Scalar", "Scalar", "Tnsr", "Tnsr">>
      [] kind = "merge"   -> <<"Tnsr", "Scalar">>
      [] kind \in {"poolmax", "poolavg"} ->
             <<"Tnsr", "Scalar", "Scalar", "Scalar", "Scalar", "Scalar", "Scalar">>
      [] kind = "split"   -> <<"Scalar", "Tnsr">>
      [] kind \in {"split_0", "split_1"} -> <<"TnsrTuple">>
      [] OTHER -> <<>>

\* The variants with operands that make translates
OperandKinds ==
    {"matmul", "conv2d", "ewadd", "ewmul", "relu", "tanh", "sigmoid", "input",
     "weight", "concat", "merge", "poolmax", "split", "split_0", "split_1", "enlarge"}

\* The tag of the record of class c before the step
TagOf(c) == classes[c].data.dtype

\* The operands of e-node n carry the tags its variant demands
WellTagged(n) ==
    /\ Len(n.ids) = Len(Demanded(n.kind))
    /\ \A i \in 1..Len(n.ids) : TagOf(n.ids[i]) = Demanded(n.kind)[i]

\* The step is a call of make that panicked and left everything as it was
AbortedCleanly ==
    /\ last'.status = "abort"
    /\ last'.data = NoData
    /\ classes' = classes
    /\ first' = first
    /\ graph' = graph

\* C1: a make of a translated variant with an operand whose tag differs from
\* the one the grammar demands for its position panics: no record is
\* returned, no class is created and the graph sees no call.
C1_MismatchAborts ==
    [][(last'.op = "make" /\ last'.node.kind \in OperandKinds /\ ~WellTagged(last'.node))
          => AbortedCleanly]_vars

\* C1 witness: Matmul(activation, tensor, name) was refused
C1_Witness ==
    /\ last.op = "make" /\ last.status = "abort" /\ last.node.kind = "matmul"
    /\ TagOf(last.node.ids[1]) = "Scalar"
    /\ TagOf(last.node.ids[2]) = "Tnsr"
    /\ TagOf(last.node.ids[3]) = "Name"

\* C2: the record of a class is the one make first returned for it, whatever
\* adds, unions and rebuilds follow; merge answers false and leaves the
\* record of `to` alone; modify changes neither the classes nor the graph.
C2_WriteOnce ==
    [][/\ Len(first') = Len(classes')
       /\ \A i \in 1..Len(classes') : classes'[i].data = first'[i]
       /\ \A i \in 1..Len(first) : first'[i] = first[i]
       /\ last'.op = "merge" => (~last'.ret /\ classes' = classes /\ graph' = graph)
       /\ last'.op = "modify" => (classes' = classes /\ graph' = graph)]_vars

\* C2 witness: two classes of the same e-node with different records were
\* merged
C2_Witness ==
    /\ last.op = "merge"
    /\ classes[last.node.ids[1]].nodes = classes[last.node.ids[2]].nodes
    /\ classes[last.node.ids[1]].data # classes[last.node.ids[2]].data

\* Two records merge may treat as one: the same tag, value and name, and
\* handles that point to the same tensors of the graph
Interchangeable(d1, d2) ==
    /\ d1.dtype = d2.dtype
    /\ d1.val = d2.val
    /\ d1.name = d2.name
    /\ Deref(graph, d1.meta) = Deref(graph, d2.meta)
    /\ Deref(graph, d1.meta_2) = Deref(graph, d2.meta_2)

\* C3: two classes made from the same e-node (same variant, same operand
\* classes) carry interchangeable records.
C3_MergeInvariant ==
    \A i \in ClassIds, j \in ClassIds :
        classes[i].nodes = classes[j].nodes
            => Interchangeable(classes[i].data, classes[j].data)

\* The value of the record of class c before the step
ValOf(c) == classes[c].data.val

\* The backend constructor of a pooling variant
PoolFn(kind) == IF kind = "poolavg" THEN "pool2d_avg" ELSE "pool2d_max"

\* C4: a Poolavg or Poolmax with well-tagged operands, padding in {0,1} and
\* activation in {0,..,3} calls the pooling constructor once with those
\* arguments and returns a Tnsr record of the handle it got.
C4_PoolingTranslated ==
    [][(/\ last'.op = "make"
        /\ last'.node.kind \in {"poolavg", "poolmax"}
        /\ WellTagged(last'.node)
        /\ ValOf(last'.node.ids[6]) \in {0, 1}
        /\ ValOf(last'.node.ids[7]) \in 0..3)
          => /\ last'.status = "ok"
             /\ last'.data = TnsrData(Len(graph'.heap))
             /\ graph'.calls = Append(graph.calls,
                    Call(PoolFn(last'.node.kind),
                         <<classes[last'.node.ids[1]].data.meta>>,
                         [i \in 1..6 |-> ValOf(last'.node.ids[i + 1])], <<>>))]_vars

\* The name of the record of class c before the step
NameOf(c) == classes[c].data.name

\* The tokens after the '@' of a name with exactly one '@'
DimTokens(s) == SplitStr(SplitStr(s, "@")[2], "_")

\* The name format of C5: exactly two parts around '@', and every
\* '_'-separated token of the second part a positive integer
PositiveDims(s) ==
    /\ Len(SplitStr(s, "@")) = 2
    /\ \A i \in 1..Len(DimTokens(s)) :
          ParseI32(DimTokens(s)[i]).ok /\ ParseI32(DimTokens(s)[i]).val > 0

\* The call C5 expects of an Input or Weight of a well-formed name: the
\* rank and the dimensions in order
ExpectedDimsCall(kind, s, call) ==
    /\ call.fn = (IF kind = "input" THEN "new_input" ELSE "new_weight")
    /\ call.params = <<Len(DimTokens(s))>>
                       \o [i \in 1..Len(DimTokens(s)) |-> ParseI32(DimTokens(s)[i]).val]

\* C5: an Input or Weight of a Name class calls the constructor exactly
\* when the name has the format of PositiveDims, handing over the rank and
\* the dimensions in order; for every other name make panics before any
\* call.
C5_NameParseContract ==
    [][(/\ last'.op = "make"
        /\ last'.node.kind \in {"input", "weight"}
        /\ WellTagged(last'.node))
          => IF PositiveDims(NameOf(last'.node.ids[1]))
             THEN /\ last'.status = "ok"
                  /\ Len(graph'.calls) = Len(graph.calls) + 1
                  /\ ExpectedDimsCall(last'.node.kind, NameOf(last'.node.ids[1]),
                                      graph'.calls[Len(graph'.calls)])
             ELSE AbortedCleanly]_vars

\* C6: Split0 of a TnsrTuple class returns a Tnsr record of the pair's first
\* handle and Split1 one of its second handle; the graph sees no call and
\* gets no new descriptor, the pair's class is left as it was, the two
\* handles of the pair differ, and the handle returned is held by no other
\* class than the pair and the classes of this same projection.
C6_SplitProjection ==
    [][(/\ last'.op = "make"
        /\ last'.node.kind \in {"split_0", "split_1"}
        /\ WellTagged(last'.node))
          => /\ last'.status = "ok"
             /\ last'.data =
                  TnsrData(IF last'.node.kind = "split_0"
                           THEN classes[last'.node.ids[1]].data.meta
                           ELSE classes[last'.node.ids[1]].data.meta_2)
             /\ graph' = graph
             /\ classes'[last'.node.ids[1]] = classes[last'.node.ids[1]]
             /\ classes[last'.node.ids[1]].data.meta
                  # classes[last'.node.ids[1]].data.meta_2
             /\ \A q \in ClassIds \ {last'.node.ids[1]} :
                   last'.data.meta \in {classes[q].data.meta, classes[q].data.meta_2}
                      => classes[q].nodes = last'.node]_vars

\* C6 witness: Split1 returned the second handle of a pair made by Split,
\* which is not the pair's first handle
C6_Witness ==
    /\ last.op = "make" /\ last.status = "ok" /\ last.node.kind = "split_1"
    /\ classes[last.node.ids[1]].nodes.kind = "split"
    /\ last.data.meta = classes[last.node.ids[1]].data.meta_2
    /\ last.data.meta # classes[last.node.ids[1]].data.meta

Untranslated == {"smul", "transpose", "Cpool", "Iconv", "Imatmul", "Iewmul"}

\* The variants the per-variant contract of make enumerates
Enumerated == OperandKinds \cup {"poolavg", "Num", "Var"}

\* C8: a make of an untranslated variant prints the e-node and panics,
\* returning no record and calling nothing; a make of an enumerated
\* variant never reaches that fallback.
C8_FallbackFatal ==
    [][/\ (last'.op = "make" /\ last'.node.kind \in Untranslated)
             => (last'.printed /\ AbortedCleanly)
       /\ (last'.op = "make" /\ last'.node.kind \in Enumerated)
             => ~last'.printed]_vars

\* The calls the step appended to the log of the graph
NewCalls == SubSeq(graph'.calls, Len(graph.calls) + 1, Len(graph'.calls))

\* The op behind the first handle of the record the step returned
SplitOp == Deref(graph', last'.data.meta).op

\* C9: a Split of (Scalar, Tnsr) first asks for the 2-way split op; on the
\* invalid op it panics with that single call, no edge and no record;
\* otherwise it registers one edge from the input's op and output index to
\* the split op, and returns the TnsrTuple of the op's outputs 0 and 1.  No
\* edge ever ends at the invalid op.
C9_SplitOrdering ==
    [][(/\ last'.op = "make"
        /\ last'.node.kind = "split"
        /\ WellTagged(last'.node))
          => LET t    == classes[last'.node.ids[2]].data.meta
                 ask  == Call("get_or_create_split1", <<t>>,
                              <<ValOf(last'.node.ids[1]), 2>>, <<>>)
                 edge == <<Deref(graph, t).op, SplitOp, Deref(graph, t).idx, 0>>
             IN  /\ \A e \in graph'.edges : e[2] # InvalidOp
                 /\ IF last'.status = "abort"
                    THEN /\ NewCalls = <<ask>>
                         /\ graph'.edges = graph.edges
                         /\ graph'.heap = graph.heap
                         /\ graph'.ops = graph.ops
                         /\ last'.data = NoData
                         /\ classes' = classes
                    ELSE /\ NewCalls = <<ask, Call("add_edge", <<>>, edge, <<>>)>>
                         /\ graph'.edges = graph.edges \cup {edge}
                         /\ SplitOp # InvalidOp
                         /\ graph'.ops[SplitOp].type = "split"
                         /\ last'.data.dtype = "TnsrTuple"
                         /\ Deref(graph', last'.data.meta) = [op |-> SplitOp, idx |-> 0]
                         /\ Deref(graph', last'.data.meta_2) = [op |-> SplitOp, idx |-> 1]
                         /\ classes' = Append(classes,
                                [nodes |-> last'.node, data |-> last'.data])]_vars

\* C9 witness: a Split went through and its edge is in the graph
C9_Witness ==
    /\ last.op = "make" /\ last.status = "ok" /\ last.node.kind = "split"
    /\ last.data.dtype = "TnsrTuple"
    /\ graph.calls[Len(graph.calls)].fn = "add_edge"
    /\ graph.calls[Len(graph.calls) - 1].fn = "get_or_create_split1"

\* The payload of a record agrees with its tag
PayloadOfTag(d) ==
    CASE d.dtype = "Scalar" -> d.name = <<>> /\ d.meta = Null /\ d.meta_2 = Null
      [] d.dtype = "Name" -> d.val = 0 /\ d.meta = Null /\ d.meta_2 = Null
      [] d.dtype = "Tnsr" -> d.val = 0 /\ d.name = <<>> /\ d.meta_2 = Null
      [] d.dtype = "TnsrTuple" -> d.val = 0 /\ d.name = <<>>

\* C10: every record make returned has the payload of its tag and nothing
\* else; a record with a second handle is a TnsrTuple, and only Split
\* e-nodes have TnsrTuple records.
C10_TagPayload ==
    \A i \in ClassIds :
        /\ PayloadOfTag(classes[i].data)
        /\ classes[i].data.meta_2 # Null => classes[i].data.dtype = "TnsrTuple"
        /\ classes[i].data.dtype = "TnsrTuple" => classes[i].nodes.kind = "split"
        /\ first[i] = classes[i].data

\* C10 witness: the e-graph holds a record of each tag, and a projection
\* of the pair
C10_Witness ==
    /\ \A k \in DataKind : \E i \in ClassIds : classes[i].data.dtype = k
    /\ \E i \in ClassIds : classes[i].nodes.kind = "split_0"
====
